---------------------------- MODULE Spec2Model ----------------------------
(***************************************************************************)
(* Model of connecttoolcli (src/main.go): one process run, from the point  *)
(* where flag.Parse has returned, through the dispatch on the command      *)
(* token, the single gRPC call of the selected handler, the rendering of   *)
(* its response, and process exit.                                         *)
(*                                                                         *)
(* Standard output and standard error are sequences of lines.  Lines       *)
(* written through package log are recorded without the date/time prefix   *)
(* that log.LstdFlags puts in front of the message.                        *)
(***************************************************************************)
EXTENDS Integers, Sequences, FiniteSets, TLC

VARIABLES
    goos,       \* runtime.GOOS of the host
    args,       \* flag.Args(): the positional arguments left by flag.Parse
    pc,         \* position of main
    command,    \* flag.Arg(0), "" until read
    conn,       \* the *grpc.ClientConn: "none", "open", "closed"
    ctx,        \* the context of line 39: "none", "active", "expired", "cancelled"
    calls,      \* requests handed to the service client, in order
    r,          \* the response the handler received, NoResp until then
    err,        \* the error the failing call (or NewClient) returned, "" if none
    stdout,     \* lines written to standard output
    stderr,     \* lines written to standard error
    exitCode    \* process exit status, -1 while running

vars == <<goos, args, pc, command, conn, ctx, calls, r, err, stdout, stderr, exitCode>>

---------------------------------------------------------------------------
(* Bounds of the model *)

MaxArgs == 2        \* longest positional argument list
MaxMembers == 2     \* longest member list of a GetLobbyInfo response
MaxLobbies == 2     \* longest list of a GetFriendLobbies response
MaxRoutes == 2      \* longest list of a GetVPNRoutingTable response

---------------------------------------------------------------------------
(* Input domains *)

Commands == {"create", "join", "leave", "info", "friends", "invite", "vpn-status", "vpn-routes"}

CommandTokens == Commands \cup {"bogus"}

ExtraTokens == {"L123", "7656"}

SeqsUpTo(S, n) == UNION {[1..k -> S] : k \in 0..n}

ArgLists == {<<>>} \cup {<<c>> \o rest : c \in CommandTokens, rest \in SeqsUpTo(ExtraTokens, MaxArgs - 1)}

\* A uint32 is kept as its two 16-bit halves: the value is hi * 65536 + lo.
U32(hi, lo) == [hi |-> hi, lo |-> lo]

\* 0.0.0.0, 192.168.0.1 (0xC0A80001), 255.255.255.255, 10.0.1.1, 1.2.3.4
IPSamples == {U32(0, 0), U32(49320, 1), U32(65535, 65535), U32(2560, 257), U32(258, 772)}

NoResp == [kind |-> "none"]

Members == {[name |-> "alice", steam_id |-> "7656", ping |-> 42, relay_info |-> "fra"],
            [name |-> "bob", steam_id |-> "7657", ping |-> -1, relay_info |-> ""]}

FriendLobbies == {[name |-> "carol", steam_id |-> "7658", lobby_id |-> "L123"],
                  [name |-> "dave", steam_id |-> "7659", lobby_id |-> "L9"]}

NilStats == [nil |-> TRUE, packets_sent |-> 0, bytes_sent |-> 0,
             packets_received |-> 0, bytes_received |-> 0, packets_dropped |-> 0]

StatsValues == {NilStats,
                [nil |-> FALSE, packets_sent |-> 0, bytes_sent |-> 0,
                 packets_received |-> 0, bytes_received |-> 0, packets_dropped |-> 0],
                [nil |-> FALSE, packets_sent |-> 12, bytes_sent |-> 3400,
                 packets_received |-> 7, bytes_received |-> 901, packets_dropped |-> 3]}

Routes == {[ip |-> v, name |-> n, is_local |-> l] :
              v \in IPSamples, <<n, l>> \in {<<"eth0", TRUE>>, <<"tun0", FALSE>>}}

Responses(method) ==
    CASE method = "CreateLobby" ->
           {[kind |-> method, success |-> s, lobby_id |-> l] : s \in BOOLEAN, l \in {"", "L123"}}
      [] method = "JoinLobby" ->
           {[kind |-> method, success |-> s, message |-> m] : s \in BOOLEAN, m \in {"", "lobby full"}}
      [] method \in {"LeaveLobby", "InviteFriend"} ->
           {[kind |-> method, success |-> s] : s \in BOOLEAN}
      [] method = "GetLobbyInfo" ->
           {[kind |-> method, is_in_lobby |-> b, lobby_id |-> l, members |-> ms] :
               b \in BOOLEAN, l \in {"", "L123"}, ms \in SeqsUpTo(Members, MaxMembers)}
      [] method = "GetFriendLobbies" ->
           {[kind |-> method, lobbies |-> ls] : ls \in SeqsUpTo(FriendLobbies, MaxLobbies)}
      [] method = "GetVPNStatus" ->
           {[kind |-> method, enabled |-> e, local_ip |-> "10.0.0.2", device_name |-> "tun0",
             stats |-> st] : e \in BOOLEAN, st \in StatsValues}
      [] method = "GetVPNRoutingTable" ->
           {[kind |-> method, routes |-> rs] : rs \in SeqsUpTo(Routes, MaxRoutes)}

\* The texts below stand for the text of the error value (%v of err).
CallErrors == {"rpc error: code = Unavailable desc = connection error",
               "rpc error: code = Internal desc = lobby service failure"}

ErrDeadline == "rpc error: code = DeadlineExceeded desc = context deadline exceeded"

ErrTarget == "invalid target"

---------------------------------------------------------------------------
(* Formatting *)

Digit(d) ==
    CASE d = 0 -> "0" [] d = 1 -> "1" [] d = 2 -> "2" [] d = 3 -> "3" [] d = 4 -> "4"
      [] d = 5 -> "5" [] d = 6 -> "6" [] d = 7 -> "7" [] d = 8 -> "8" [] d = 9 -> "9"

RECURSIVE FmtD(_)
FmtD(n) ==
    IF n < 0 THEN "-" \o FmtD(-n)
    ELSE IF n < 10 THEN Digit(n)
    ELSE FmtD(n \div 10) \o Digit(n % 10)

FmtV(b) == IF b THEN "true" ELSE "false"

RECURSIVE Pow2(_)
Pow2(n) == IF n = 0 THEN 1 ELSE 2 * Pow2(n - 1)

\* v >> n on a uint32
Shr(v, n) ==
    IF n >= 16
      THEN U32(0, v.hi \div Pow2(n - 16))
      ELSE U32(v.hi \div Pow2(n), (v.hi % Pow2(n)) * Pow2(16 - n) + v.lo \div Pow2(n))

\* byte(v): the conversion keeps the low eight bits
ToByte(v) == v.lo % 256

\* FmtIP with the octets taken from the low end first
FmtIPLittleEndian(v) ==
    FmtD(ToByte(v)) \o "." \o FmtD(ToByte(Shr(v, 8))) \o "."
      \o FmtD(ToByte(Shr(v, 16))) \o "." \o FmtD(ToByte(Shr(v, 24)))

FmtIP(v) ==
    FmtD(ToByte(Shr(v, 24))) \o "." \o FmtD(ToByte(Shr(v, 16))) \o "."
      \o FmtD(ToByte(Shr(v, 8))) \o "." \o FmtD(ToByte(v))

defaultSocketPath(os) ==
    IF os = "windows" THEN "connect_tool.sock" ELSE "/tmp/connect_tool.sock"

PrintDefaults(os) ==
    <<"  -socket string",
      "    \tPath to the Unix Domain Socket (default \"" \o defaultSocketPath(os) \o "\")">>

\* printUsage without the lines of the two VPN commands
printUsageWithoutVPN ==
    <<"Usage: connecttoolcli [flags] <command> [args...]",
      "Commands:",
      "  create                   Create a new lobby",
      "  join <lobby_id>          Join a lobby",
      "  leave                    Leave current lobby",
      "  info                     Get current lobby info",
      "  friends                  List friend lobbies",
      "  invite <steam_id>        Invite a friend",
      "Flags:">>

printUsage ==
    <<"Usage: connecttoolcli [flags] <command> [args...]",
      "Commands:",
      "  create                   Create a new lobby",
      "  join <lobby_id>          Join a lobby",
      "  leave                    Leave current lobby",
      "  info                     Get current lobby info",
      "  friends                  List friend lobbies",
      "  invite <steam_id>        Invite a friend",
      "  vpn-status               Get VPN status",
      "  vpn-routes               Get VPN routing table",
      "Flags:">>

---------------------------------------------------------------------------
(* The handlers: the method each one calls, its fatal message, its output *)

FlagArg(as, i) == IF i + 1 <= Len(as) THEN as[i + 1] ELSE ""

\* NeedsArg with the length check of the invite case left out
NeedsArgJoinOnly(cmd) == cmd \in {"join"}

NeedsArg(cmd) == cmd \in {"join", "invite"}

\* MethodOf with the leave and info cases calling each other's handler
MethodOfSwapped(cmd) ==
    CASE cmd = "create" -> "CreateLobby"
      [] cmd = "join" -> "JoinLobby"
      [] cmd = "leave" -> "GetLobbyInfo"
      [] cmd = "info" -> "LeaveLobby"
      [] cmd = "friends" -> "GetFriendLobbies"
      [] cmd = "invite" -> "InviteFriend"
      [] cmd = "vpn-status" -> "GetVPNStatus"
      [] cmd = "vpn-routes" -> "GetVPNRoutingTable"

MethodOf(cmd) ==
    CASE cmd = "create" -> "CreateLobby"
      [] cmd = "join" -> "JoinLobby"
      [] cmd = "leave" -> "LeaveLobby"
      [] cmd = "info" -> "GetLobbyInfo"
      [] cmd = "friends" -> "GetFriendLobbies"
      [] cmd = "invite" -> "InviteFriend"
      [] cmd = "vpn-status" -> "GetVPNStatus"
      [] cmd = "vpn-routes" -> "GetVPNRoutingTable"

Request(cmd, as) ==
    [method |-> MethodOf(cmd), arg |-> IF NeedsArg(cmd) THEN FlagArg(as, 1) ELSE ""]

FatalPrefix(method) ==
    CASE method = "CreateLobby" -> "could not create lobby: "
      [] method = "JoinLobby" -> "could not join lobby: "
      [] method = "LeaveLobby" -> "could not leave lobby: "
      [] method = "GetLobbyInfo" -> "could not get lobby info: "
      [] method = "GetFriendLobbies" -> "could not get friend lobbies: "
      [] method = "InviteFriend" -> "could not invite friend: "
      [] method = "GetVPNStatus" -> "could not get VPN status: "
      [] method = "GetVPNRoutingTable" -> "could not get VPN routing table: "

\* UsageFatal with the join message pasted into the invite case
UsageFatalJoinOnly(cmd) == "Usage: join <lobby_id>"

UsageFatal(cmd) ==
    IF cmd = "join" THEN "Usage: join <lobby_id>" ELSE "Usage: invite <steam_id>"

createLobby(resp) ==
    <<"Success: " \o FmtV(resp.success) \o ", Lobby ID: " \o resp.lobby_id>>

joinLobby(resp) ==
    <<"Success: " \o FmtV(resp.success) \o ", Message: " \o resp.message>>

leaveLobby(resp) == <<"Success: " \o FmtV(resp.success)>>

inviteFriend(resp) == <<"Success: " \o FmtV(resp.success)>>

MemberLine(m) ==
    "  - Name: " \o m.name \o ", ID: " \o m.steam_id \o ", Ping: " \o FmtD(m.ping)
      \o ", Relay: " \o m.relay_info

\* getLobbyInfo without the test of the in-lobby flag
getLobbyInfoUnguarded(resp) ==
    <<"In Lobby: " \o FmtV(resp.is_in_lobby)>> \o
    <<"Lobby ID: " \o resp.lobby_id, "Members:">> \o
    [i \in 1..Len(resp.members) |-> MemberLine(resp.members[i])]

getLobbyInfo(resp) ==
    <<"In Lobby: " \o FmtV(resp.is_in_lobby)>> \o
    (IF resp.is_in_lobby
       THEN <<"Lobby ID: " \o resp.lobby_id, "Members:">> \o
            [i \in 1..Len(resp.members) |-> MemberLine(resp.members[i])]
       ELSE <<>>)

FriendLine(l) ==
    "  - Friend: " \o l.name \o " (" \o l.steam_id \o "), Lobby: " \o l.lobby_id

getFriendLobbies(resp) ==
    <<"Friend Lobbies:">> \o [i \in 1..Len(resp.lobbies) |-> FriendLine(resp.lobbies[i])]

StatsLines(stats) ==
    IF ~stats.nil
      THEN <<"Stats:",
             "  Sent: " \o FmtD(stats.packets_sent) \o " pkts / " \o FmtD(stats.bytes_sent) \o " bytes",
             "  Recv: " \o FmtD(stats.packets_received) \o " pkts / "
                \o FmtD(stats.bytes_received) \o " bytes",
             "  Dropped: " \o FmtD(stats.packets_dropped) \o " pkts">>
      ELSE <<>>

\* getVPNStatus with the stats block outside the test of the enabled flag
getVPNStatusStatsOutside(resp) ==
    <<"Enabled: " \o FmtV(resp.enabled)>> \o
    (IF resp.enabled
       THEN <<"Local IP: " \o resp.local_ip, "Device: " \o resp.device_name>>
       ELSE <<>>) \o
    StatsLines(resp.stats)

getVPNStatus(resp) ==
    <<"Enabled: " \o FmtV(resp.enabled)>> \o
    (IF resp.enabled
       THEN <<"Local IP: " \o resp.local_ip, "Device: " \o resp.device_name>>
            \o StatsLines(resp.stats)
       ELSE <<>>)

RouteLine(route) ==
    "  - IP: " \o FmtIP(route.ip) \o ", Name: " \o route.name \o ", Local: " \o FmtV(route.is_local)

getVPNRoutingTable(resp) ==
    <<"Routing Table:">> \o [i \in 1..Len(resp.routes) |-> RouteLine(resp.routes[i])]

Render(resp) ==
    CASE resp.kind = "CreateLobby" -> createLobby(resp)
      [] resp.kind = "JoinLobby" -> joinLobby(resp)
      [] resp.kind = "LeaveLobby" -> leaveLobby(resp)
      [] resp.kind = "GetLobbyInfo" -> getLobbyInfo(resp)
      [] resp.kind = "GetFriendLobbies" -> getFriendLobbies(resp)
      [] resp.kind = "InviteFriend" -> inviteFriend(resp)
      [] resp.kind = "GetVPNStatus" -> getVPNStatus(resp)
      [] resp.kind = "GetVPNRoutingTable" -> getVPNRoutingTable(resp)

---------------------------------------------------------------------------
(* Process exit *)

\* os.Exit and log.Fatal end the process at once: deferred calls do not run.
ConnAfterOsExit(c) == c

CtxAfterOsExit(x) == x

\* main returns: the deferred cancel() and conn.Close() run, status is 0.
ConnAfterReturn(c) == "closed"

CtxAfterReturn(x) == "cancelled"

\* ReturnStatus with a false success flag turned into a failure status
ReturnStatusFromSuccess(resp) ==
    IF "success" \in DOMAIN resp /\ ~resp.success THEN 1 ELSE 0

ReturnStatus(resp) == 0

---------------------------------------------------------------------------
(* The run *)

Init ==
    /\ goos \in {"linux", "windows"}
    /\ args \in ArgLists
    /\ pc = "main"
    /\ command = ""
    /\ conn = "none"
    /\ ctx = "none"
    /\ calls = <<>>
    /\ r = NoResp
    /\ err = ""
    /\ stdout = <<>>
    /\ stderr = <<>>
    /\ exitCode = -1

\* main, lines 21-26: no command token
NoCommand ==
    /\ pc = "main"
    /\ Len(args) < 1
    /\ stdout' = stdout \o printUsage
    /\ stderr' = stderr \o PrintDefaults(goos)
    /\ exitCode' = 1
    /\ pc' = "exited"
    /\ conn' = ConnAfterOsExit(conn)
    /\ ctx' = CtxAfterOsExit(ctx)
    /\ UNCHANGED <<goos, args, command, calls, r, err>>

\* main, lines 21-40: the command token is read, the client and the context are created
NewClientOk ==
    /\ pc = "main"
    /\ ~(Len(args) < 1)
    /\ command' = FlagArg(args, 0)
    /\ conn' = "open"
    /\ ctx' = "active"
    /\ pc' = "dispatch"
    /\ UNCHANGED <<goos, args, calls, r, err, stdout, stderr, exitCode>>

\* main, lines 21-35: grpc.NewClient rejects the target
NewClientErr ==
    /\ pc = "main"
    /\ ~(Len(args) < 1)
    /\ command' = FlagArg(args, 0)
    /\ err' = ErrTarget
    /\ stderr' = stderr \o <<"did not connect: " \o ErrTarget>>
    /\ exitCode' = 1
    /\ pc' = "exited"
    /\ UNCHANGED <<goos, args, conn, ctx, calls, r, stdout>>

\* main, lines 45-48 and 56-59: join or invite without its argument
MissingArgument ==
    /\ pc = "dispatch"
    /\ command \in Commands
    /\ NeedsArg(command)
    /\ Len(args) < 2
    /\ stderr' = stderr \o <<UsageFatal(command)>>
    /\ exitCode' = 1
    /\ pc' = "exited"
    /\ conn' = ConnAfterOsExit(conn)
    /\ ctx' = CtxAfterOsExit(ctx)
    /\ UNCHANGED <<goos, args, command, calls, r, err, stdout>>

\* main, lines 66-69: unknown command
UnknownCommand ==
    /\ pc = "dispatch"
    /\ command \notin Commands
    /\ stdout' = stdout \o <<"Unknown command: " \o command>> \o printUsage
    /\ stderr' = stderr \o PrintDefaults(goos)
    /\ exitCode' = 1
    /\ pc' = "exited"
    /\ conn' = ConnAfterOsExit(conn)
    /\ ctx' = CtxAfterOsExit(ctx)
    /\ UNCHANGED <<goos, args, command, calls, r, err>>

\* main, lines 42-65, and the first line of the handler: the call is issued
IssueCall ==
    /\ pc = "dispatch"
    /\ command \in Commands
    /\ ~(NeedsArg(command) /\ Len(args) < 2)
    /\ calls' = Append(calls, Request(command, args))
    /\ pc' = "call"
    /\ UNCHANGED <<goos, args, command, conn, ctx, r, err, stdout, stderr, exitCode>>

\* handler, err == nil: the response is rendered, the handler and main return
CallReturns ==
    /\ pc = "call"
    /\ ctx = "active"
    /\ \E resp \in Responses(calls[Len(calls)].method) :
          /\ r' = resp
          /\ stdout' = stdout \o Render(resp)
          /\ exitCode' = ReturnStatus(resp)
    /\ conn' = ConnAfterReturn(conn)
    /\ ctx' = CtxAfterReturn(ctx)
    /\ pc' = "exited"
    /\ UNCHANGED <<goos, args, command, calls, err, stderr>>

Fatal(e) ==
    /\ err' = e
    /\ stderr' = stderr \o <<FatalPrefix(calls[Len(calls)].method) \o e>>
    /\ exitCode' = 1
    /\ pc' = "exited"
    /\ conn' = ConnAfterOsExit(conn)
    /\ ctx' = IF e = ErrDeadline THEN "expired" ELSE CtxAfterOsExit(ctx)
    /\ UNCHANGED <<goos, args, command, calls, r, stdout>>

\* handler, err != nil: the connection cannot be established or the service returns an error
CallFails ==
    /\ pc = "call"
    /\ ctx = "active"
    /\ \E e \in CallErrors : Fatal(e)

\* DeadlineExceeded for a context made without a timeout: it never fires
DeadlineNever == FALSE /\ UNCHANGED vars

\* handler, err != nil: the 5 s deadline of ctx passes while the call is pending
DeadlineExceeded ==
    /\ pc = "call"
    /\ ctx = "active"
    /\ Fatal(ErrDeadline)

Next ==
    \/ NoCommand
    \/ NewClientOk
    \/ NewClientErr
    \/ MissingArgument
    \/ UnknownCommand
    \/ IssueCall
    \/ CallReturns
    \/ CallFails
    \/ DeadlineExceeded

Spec == Init /\ [][Next]_vars

\* The process runs while it can, and the runtime fires the context's timer; nothing
\* obliges the service to answer.
FairSpec ==
    /\ Spec
    /\ WF_vars(NoCommand \/ NewClientOk \/ NewClientErr)
    /\ WF_vars(MissingArgument \/ UnknownCommand \/ IssueCall)
    /\ WF_vars(DeadlineExceeded)

---------------------------------------------------------------------------
(* Vocabulary of the properties *)

Exited == pc = "exited"

NoToken == Len(args) < 1

Unrecognized == Len(args) >= 1 /\ args[1] \notin Commands

MissingArg == Len(args) >= 1 /\ args[1] \in {"join", "invite"} /\ Len(args) < 2

UsageError == NoToken \/ Unrecognized \/ MissingArg

WellFormed == ~UsageError

ClientCreated == conn # "none"

CallFailed == err \in CallErrors \cup {ErrDeadline}

Range(q) == {q[i] : i \in 1..Len(q)}

\* The call each command is documented to make, written out command by command.
ExpectedCall(as) ==
    CASE as[1] = "create" -> [method |-> "CreateLobby", arg |-> ""]
      [] as[1] = "join" -> [method |-> "JoinLobby", arg |-> as[2]]
      [] as[1] = "leave" -> [method |-> "LeaveLobby", arg |-> ""]
      [] as[1] = "info" -> [method |-> "GetLobbyInfo", arg |-> ""]
      [] as[1] = "friends" -> [method |-> "GetFriendLobbies", arg |-> ""]
      [] as[1] = "invite" -> [method |-> "InviteFriend", arg |-> as[2]]
      [] as[1] = "vpn-status" -> [method |-> "GetVPNStatus", arg |-> ""]
      [] as[1] = "vpn-routes" -> [method |-> "GetVPNRoutingTable", arg |-> ""]

\* The usage listing: every one of the eight commands has its line.
ListsAllCommands(out) ==
    /\ "Usage: connecttoolcli [flags] <command> [args...]" \in Range(out)
    /\ "  create                   Create a new lobby" \in Range(out)
    /\ "  join <lobby_id>          Join a lobby" \in Range(out)
    /\ "  leave                    Leave current lobby" \in Range(out)
    /\ "  info                     Get current lobby info" \in Range(out)
    /\ "  friends                  List friend lobbies" \in Range(out)
    /\ "  invite <steam_id>        Invite a friend" \in Range(out)
    /\ "  vpn-status               Get VPN status" \in Range(out)
    /\ "  vpn-routes               Get VPN routing table" \in Range(out)

ListsFlags(out) == "  -socket string" \in Range(out)

\* The output of a run without a usable command token, as a function of its input.
BadInputStdout(as) ==
    (IF Len(as) < 1 THEN <<>> ELSE <<"Unknown command: " \o as[1]>>) \o
    <<"Usage: connecttoolcli [flags] <command> [args...]",
      "Commands:",
      "  create                   Create a new lobby",
      "  join <lobby_id>          Join a lobby",
      "  leave                    Leave current lobby",
      "  info                     Get current lobby info",
      "  friends                  List friend lobbies",
      "  invite <steam_id>        Invite a friend",
      "  vpn-status               Get VPN status",
      "  vpn-routes               Get VPN routing table",
      "Flags:">>

BadInputStderr(os) ==
    <<"  -socket string",
      IF os = "windows"
        THEN "    \tPath to the Unix Domain Socket (default \"connect_tool.sock\")"
        ELSE "    \tPath to the Unix Domain Socket (default \"/tmp/connect_tool.sock\")">>

\* The big-endian octets of a uint32: the a, b, c, d below 256 with
\* hi = 256a + b and lo = 256c + d.
HighOctet(h) == CHOOSE a \in 0..255 : h - 256 * a \in 0..255

Octets(v) ==
    <<HighOctet(v.hi), v.hi - 256 * HighOctet(v.hi), HighOctet(v.lo), v.lo - 256 * HighOctet(v.lo)>>

Dotted(o) == FmtD(o[1]) \o "." \o FmtD(o[2]) \o "." \o FmtD(o[3]) \o "." \o FmtD(o[4])

ExpectedRouteLine(route) ==
    "  - IP: " \o Dotted(Octets(route.ip)) \o ", Name: " \o route.name \o ", Local: "
      \o (IF route.is_local THEN "true" ELSE "false")

NamedExamples(route, line) ==
    /\ route.ip = U32(49320, 1) /\ route.name = "eth0" /\ route.is_local
          => line = "  - IP: 192.168.0.1, Name: eth0, Local: true"
    /\ route.ip = U32(0, 0) /\ route.name = "tun0" /\ ~route.is_local
          => line = "  - IP: 0.0.0.0, Name: tun0, Local: false"
    /\ route.ip = U32(65535, 65535) /\ route.name = "eth0" /\ route.is_local
          => line = "  - IP: 255.255.255.255, Name: eth0, Local: true"

ExpectedMemberLine(m) ==
    IF m.name = "alice"
      THEN "  - Name: alice, ID: 7656, Ping: 42, Relay: fra"
      ELSE "  - Name: bob, ID: 7657, Ping: -1, Relay: "

---------------------------------------------------------------------------
(* The properties *)

\* C1: a run whose input is a usage error (no command token, an unrecognized token,
\* join or invite without its argument) never issues a remote call: the call list
\* is empty in every state of the run, so also at exit.
C1_UsageErrorMakesNoCall == UsageError => calls = <<>>

C1_Witness ==
    /\ Exited /\ MissingArg /\ ClientCreated
    /\ exitCode = 1 /\ calls = <<>>

\* C2 as stated: a run with a recognized command and its required argument has issued
\* exactly one remote call, the one matching the command, when it exits.
C2_ExactlyOneCallAtExit ==
    Exited /\ WellFormed => Len(calls) = 1 /\ calls[1] = ExpectedCall(args)

\* C2 amended: such a run never issues more than one call; when it exits having created
\* its client it has issued exactly the one matching call, with positional argument 1
\* as the lobby or friend id; when grpc.NewClient fails it exits with status 1 and
\* has issued no call.
C2_OneMatchingCallOnceConnected ==
    WellFormed =>
        /\ Len(calls) <= 1
        /\ \A i \in 1..Len(calls) : calls[i] = ExpectedCall(args)
        /\ Exited /\ ClientCreated => Len(calls) = 1
        /\ Exited /\ ~ClientCreated => calls = <<>> /\ exitCode = 1 /\ err = ErrTarget

C2_Witness ==
    /\ Exited /\ args = <<"invite", "7656">>
    /\ calls = <<[method |-> "InviteFriend", arg |-> "7656"]>>

\* C3: a failed remote call (connection error, remote error, or the 5 s deadline) is
\* fatal: standard output is empty, no response is held, the only call issued is the
\* failed one, the fatal message of the handler is on standard error and the exit
\* status is non-zero; and every pending call is followed by process exit, even when
\* the service never answers.
C3_FailedCallIsFatal ==
    /\ [](CallFailed =>
            /\ Exited /\ exitCode # 0
            /\ stdout = <<>> /\ r = NoResp
            /\ Len(calls) = 1
            /\ Len(stderr) = 1
            /\ calls[1].method = "CreateLobby" => stderr[1] = "could not create lobby: " \o err
            /\ calls[1].method = "GetVPNStatus" => stderr[1] = "could not get VPN status: " \o err)
    /\ [](Len(calls) <= 1)
    /\ (pc = "call") ~> Exited

C3_Witness ==
    /\ Exited /\ err = ErrDeadline /\ exitCode = 1
    /\ calls = <<[method |-> "GetVPNRoutingTable", arg |-> ""]>>
    /\ stdout = <<>>

\* C4 as stated: no run ends with the connection opened and not closed.
C4_ConnectionClosedAtExit == Exited => conn # "open"

\* C5: a run that received a response exits with status 0 whatever the response's
\* success flag, and create, join, leave and invite render that flag as true or
\* false; status 1 occurs only for a usage error or a transport/remote failure, and
\* no other status occurs.
C5_ExitStatus ==
    Exited =>
        /\ exitCode \in {0, 1}
        /\ r # NoResp => exitCode = 0
        /\ exitCode = 1 => UsageError \/ err # ""
        /\ r.kind = "CreateLobby" =>
              stdout = <<(IF r.success THEN "Success: true" ELSE "Success: false")
                           \o ", Lobby ID: " \o r.lobby_id>>
        /\ r.kind = "JoinLobby" =>
              stdout = <<(IF r.success THEN "Success: true" ELSE "Success: false")
                           \o ", Message: " \o r.message>>
        /\ r.kind \in {"LeaveLobby", "InviteFriend"} =>
              stdout = <<IF r.success THEN "Success: true" ELSE "Success: false">>

C5_Witness ==
    /\ Exited /\ exitCode = 0
    /\ r = [kind |-> "JoinLobby", success |-> FALSE, message |-> "lobby full"]
    /\ stdout = <<"Success: false, Message: lobby full">>

\* C6 as stated: a run with no command token or an unrecognized one emits the usage
\* listing naming all eight commands and exits with status 1, its output being a
\* function of its input.
C6_BadCommandPrintsUsage ==
    Exited /\ (NoToken \/ Unrecognized) =>
        /\ exitCode = 1
        /\ ListsAllCommands(stdout)
        /\ stdout = BadInputStdout(args)
        /\ stderr = BadInputStderr(goos)

\* C6 amended: a run with no command token, and a run with an unrecognized token whose
\* client was created, emits the usage listing naming all eight commands (after an
\* "Unknown command" line in the second case) and exits with status 1, the output
\* being a function of the arguments and the platform; a run with an unrecognized
\* token whose client creation fails exits with status 1 too, with the "did not
\* connect" message alone and no listing.
C6_BadCommandPrintsUsageOnceConnected ==
    Exited /\ (NoToken \/ Unrecognized) =>
        /\ exitCode = 1
        /\ calls = <<>>
        /\ NoToken \/ ClientCreated =>
              /\ ListsAllCommands(stdout)
              /\ stdout = BadInputStdout(args)
              /\ stderr = BadInputStderr(goos)
        /\ ~(NoToken \/ ClientCreated) =>
              /\ stdout = <<>>
              /\ stderr = <<"did not connect: invalid target">>

C6_Witness ==
    /\ Exited /\ args = <<"bogus", "L123">> /\ ClientCreated
    /\ exitCode = 1
    /\ stdout[1] = "Unknown command: bogus"
    /\ Len(stdout) = 12

\* C7 as stated, on the runs that reach the dispatch on the command: join or invite
\* without its argument prints the usage listing of all eight commands and the flags,
\* as for an unknown command, and exits with status 1.
C7_MissingArgPrintsListing ==
    Exited /\ MissingArg /\ ClientCreated =>
        /\ exitCode = 1
        /\ ListsAllCommands(stdout \o stderr)
        /\ ListsFlags(stdout \o stderr)

\* C7 amended: join or invite without its argument exits with status 1, issues no call
\* and writes nothing to standard output; standard error holds one fatal line, the
\* usage of that command alone ("Usage: join <lobby_id>" or "Usage: invite
\* <steam_id>"), or the "did not connect" message when client creation failed; the
\* listing of the commands and flags is not printed.
C7_MissingArgPrintsOneLine ==
    Exited /\ MissingArg =>
        /\ exitCode = 1
        /\ calls = <<>>
        /\ stdout = <<>>
        /\ ~ListsAllCommands(stdout \o stderr)
        /\ ~ListsFlags(stdout \o stderr)
        /\ ClientCreated /\ args[1] = "join" => stderr = <<"Usage: join <lobby_id>">>
        /\ ClientCreated /\ args[1] = "invite" => stderr = <<"Usage: invite <steam_id>">>
        /\ ~ClientCreated => stderr = <<"did not connect: invalid target">>

C7_Witness ==
    /\ Exited /\ args = <<"invite">> /\ ClientCreated
    /\ exitCode = 1
    /\ stderr = <<"Usage: invite <steam_id>">>

\* C8: vpn-routes prints the header "Routing Table:" and then one line per route, in
\* the order of the response, each "  - IP: <ip>, Name: <name>, Local: <flag>" with
\* <ip> the four big-endian octets of the 32-bit value in decimal, joined by dots.
C8_RoutesRendering ==
    Exited /\ r.kind = "GetVPNRoutingTable" =>
        /\ Len(stdout) = 1 + Len(r.routes)
        /\ stdout[1] = "Routing Table:"
        /\ \A i \in 1..Len(r.routes) :
              /\ stdout[i + 1] = ExpectedRouteLine(r.routes[i])
              /\ NamedExamples(r.routes[i], stdout[i + 1])

C8_Witness ==
    /\ Exited /\ exitCode = 0
    /\ r.kind = "GetVPNRoutingTable"
    /\ r.routes = <<[ip |-> U32(49320, 1), name |-> "eth0", is_local |-> TRUE],
                    [ip |-> U32(65535, 65535), name |-> "tun0", is_local |-> FALSE]>>
    /\ stdout = <<"Routing Table:",
                  "  - IP: 192.168.0.1, Name: eth0, Local: true",
                  "  - IP: 255.255.255.255, Name: tun0, Local: false">>

\* C9: info prints "In Lobby: false" and nothing else when the response is not in a
\* lobby, whatever lobby id and members it carries; when in a lobby it prints the
\* flag, the lobby id, the "Members:" header and one line per member in order.
C9_InfoRendering ==
    Exited /\ r.kind = "GetLobbyInfo" =>
        /\ ~r.is_in_lobby => stdout = <<"In Lobby: false">>
        /\ r.is_in_lobby =>
              /\ Len(stdout) = 3 + Len(r.members)
              /\ stdout[1] = "In Lobby: true"
              /\ stdout[2] = "Lobby ID: " \o r.lobby_id
              /\ stdout[3] = "Members:"
              /\ \A i \in 1..Len(r.members) :
                    stdout[3 + i] = ExpectedMemberLine(r.members[i])

C9_Witness ==
    /\ Exited /\ r.kind = "GetLobbyInfo"
    /\ ~r.is_in_lobby /\ r.lobby_id = "L123" /\ Len(r.members) = 2
    /\ stdout = <<"In Lobby: false">>

\* C10: vpn-status prints "Enabled: false" and nothing else when the VPN is not
\* enabled, even with a stats payload of nonzero counters; when enabled it prints the
\* flag, the local IP and the device, and the four-line "Stats:" block exactly when
\* the stats payload is present.
C10_VPNStatusRendering ==
    Exited /\ r.kind = "GetVPNStatus" =>
        /\ ~r.enabled => stdout = <<"Enabled: false">>
        /\ r.enabled =>
              /\ Len(stdout) >= 3
              /\ stdout[1] = "Enabled: true"
              /\ stdout[2] = "Local IP: " \o r.local_ip
              /\ stdout[3] = "Device: " \o r.device_name
              /\ r.stats.nil => Len(stdout) = 3
              /\ ~r.stats.nil =>
                    /\ Len(stdout) = 7
                    /\ stdout[4] = "Stats:"
                    /\ r.stats.packets_sent = 12 =>
                          /\ stdout[5] = "  Sent: 12 pkts / 3400 bytes"
                          /\ stdout[6] = "  Recv: 7 pkts / 901 bytes"
                          /\ stdout[7] = "  Dropped: 3 pkts"
                    /\ r.stats.packets_sent = 0 =>
                          /\ stdout[5] = "  Sent: 0 pkts / 0 bytes"
                          /\ stdout[6] = "  Recv: 0 pkts / 0 bytes"
                          /\ stdout[7] = "  Dropped: 0 pkts"

C10_Witness ==
    /\ Exited /\ r.kind = "GetVPNStatus"
    /\ ~r.enabled /\ ~r.stats.nil /\ r.stats.packets_dropped = 3
    /\ stdout = <<"Enabled: false">>

===========================================================================
